---- MODULE Spec2Model ----
(***************************************************************************)
(* Model of src/fetch_data.py: the TMDB fetch script.  One sequential      *)
(* flow: discover movies page by page, fetch one detail payload per movie, *)
(* filter by genre, the same for TV shows, then write data.json.  Every    *)
(* HTTP GET goes through rate_limited_get.                                 *)
(*                                                                         *)
(* Time is counted in ticks of 1/12 s, so that the 10.0 s window is 120    *)
(* ticks and DELAY_BETWEEN_REQUESTS = 10.0 / 40 = 0.25 s is 3 ticks.  The  *)
(* clock time.time() is taken to be non-decreasing.                        *)
(*                                                                         *)
(* A Python string built by ', '.join is modelled as the sequence of its   *)
(* pieces (names and separators).                                          *)
(***************************************************************************)
EXTENDS Integers, Sequences, FiniteSets, TLC

VARIABLES
    pc,                 \* position of the script
    max_pages,          \* MAX_PAGES_PER_TYPE, the max_pages of fetch_all_pages
    page,               \* fetch_all_pages: page
    total_pages,        \* fetch_all_pages: total_pages
    all_results,        \* fetch_all_pages: all_results
    data,               \* fetch_all_pages: data, the latest page response
    movies,             \* movies = fetch_all_pages(movies_url)
    tv_shows,           \* tv_shows = fetch_all_pages(tv_url)
    i,                  \* number of items of the current loop already handled
    details,            \* the detail payload of the latest iteration
    movies_data,        \* movies_data
    tv_data,            \* tv_data
    data_json,          \* content of the file data.json (NoFile: untouched)
    file_opens,         \* how many times data.json was opened for writing
    now,                \* the clock, time.time()
    last_request_time,  \* last_request_time
    prev_request_time,  \* history: last_request_time before the latest grant
    requests,           \* history: the HTTP GETs issued, in order
    detail_log          \* history: the detail payload of every item handled, per category

vars == <<pc, max_pages, page, total_pages, all_results, data, movies, tv_shows,
          i, details, movies_data, tv_data, data_json, file_opens, now,
          last_request_time, prev_request_time, requests, detail_log>>

----------------------------------------------------------------------------
(* Configuration, lines 17-29 *)

REQUESTS_PER_10_SEC == 40

WINDOW_TICKS == 120

DELAY_BETWEEN_REQUESTS == WINDOW_TICKS \div REQUESTS_PER_10_SEC

EXCLUDED_GENRES == {"Animation", "Music", "Documentary", "Kids", "Reality"}

SEPARATOR == ", "

NA == <<"N/A">>

----------------------------------------------------------------------------
(* Bounds of the environment *)

MaxCap == 3

MaxTotal == 3

MaxWait == 3

MaxPerPage == 1

StartTime == 5

Min(a, b) == IF a <= b THEN a ELSE b

----------------------------------------------------------------------------
(* Values *)

Item(n) == [id |-> n]

\* a discovery response: a JSON object that may lack 'results' or 'total_pages'
Response(hasResults, results, hasTotal, total) ==
    [has_results |-> hasResults, results |-> results,
     has_total_pages |-> hasTotal, total_pages |-> total]

\* a detail response: a JSON object that may lack 'genres'
Payload(hasGenres, names) == [has_genres |-> hasGenres, genres |-> names]

NoData == Response(FALSE, <<>>, FALSE, 0)

NoDetails == Payload(FALSE, <<>>)

NoFile == [written |-> FALSE]

Request(kind, type, arg, ok) == [kind |-> kind, type |-> type, arg |-> arg, ok |-> ok]

\* lines 75 and 78: the GET of one discovery page
PageRequest(media_type, p, ok) == Request("discover", media_type, p, ok)

----------------------------------------------------------------------------
(* rate_limited_get, lines 55-66 *)

\* a sleep of the time already elapsed instead of the time still due
SleepForElapsed(elapsed) == IF elapsed < DELAY_BETWEEN_REQUESTS THEN elapsed ELSE 0

\* lines 60-61: the argument of time.sleep, 0 when no sleep is made
SleepFor(elapsed) ==
    IF elapsed < DELAY_BETWEEN_REQUESTS THEN DELAY_BETWEEN_REQUESTS - elapsed ELSE 0

\* a response whose status is never looked at
RaiseForStatusIgnored(ok, goOn) == goOn

\* line 65: raise_for_status lets the caller go on only after a success
RaiseForStatus(ok, goOn) == IF ok THEN goOn ELSE "aborted"

\* pre: time run since the clock was last read; over: what time.sleep and the
\* scheduler add to the requested sleep; dur: the duration of the GET
RateLimitedGet(pre, over, dur, req) ==
    LET t1      == now + pre
        elapsed == t1 - last_request_time
        slept   == IF SleepFor(elapsed) > 0 THEN SleepFor(elapsed) + over ELSE 0
        t2      == t1 + slept
    IN  /\ last_request_time' = t2
        /\ prev_request_time' = last_request_time
        /\ requests' = Append(requests, req)
        /\ now' = t2 + dur

----------------------------------------------------------------------------
(* fetch_all_pages, lines 69-86 *)

\* a bound that forgets the cap
LoopBoundNoCap(tp, mp) == tp

\* line 74
LoopBound(tp, mp) == Min(tp, mp)

\* line 82: data.get('total_pages', 1)
GetTotalPages(d) == IF d.has_total_pages THEN d.total_pages ELSE 1

\* total_pages taken from every response, with or without 'results'
UpdatedTotalPagesAlways(d, tp) == GetTotalPages(d)

\* lines 80-82: total_pages after the response d
UpdatedTotalPages(d, tp) == IF d.has_results THEN GetTotalPages(d) ELSE tp

\* an accumulator that a page without 'results' empties
ExtendedResultsOrReset(d, acc) == IF d.has_results THEN acc \o d.results ELSE <<>>

\* an accumulator that puts the new page first
ExtendedResultsInFront(d, acc) == IF d.has_results THEN d.results \o acc ELSE acc

\* lines 80-81: all_results after the response d
ExtendedResults(d, acc) == IF d.has_results THEN acc \o d.results ELSE acc

\* a cursor that skips a page
NextPageSkipping(p) == p + 2

\* line 84
NextPage(p) == p + 1

\* the n items of page p: ids grow in discovery order, MaxPerPage to a page
ItemsOfPage(p, n) == [k \in 1..n |-> Item(MaxPerPage * (p - 1) + k)]

\* the responses the discovery endpoint may give to a request of page p
PageResponses(E, p) ==
    {Response(TRUE, ItemsOfPage(p, n), TRUE, t) : n \in E.counts, t \in E.totals}
      \cup {Response(TRUE, ItemsOfPage(p, n), FALSE, 0) : n \in E.counts}
      \cup {Response(FALSE, <<>>, TRUE, t) : t \in E.totals}
      \cup {Response(FALSE, <<>>, FALSE, 0)}

Category == IF pc \in {"movies_pages", "movies_details"} THEN "movie" ELSE "tv"

\* one iteration of the while loop
FetchPage(E) ==
    /\ pc \in {"movies_pages", "tv_pages"}
    /\ page <= LoopBound(total_pages, max_pages)
    /\ \E pre \in E.pre, over \in E.over, dur \in E.dur, ok \in E.oks,
          d \in PageResponses(E, page) :
          /\ RateLimitedGet(pre, over, dur, PageRequest(Category, page, ok))
          /\ pc' = RaiseForStatus(ok, pc)
          /\ IF ok
                THEN /\ data' = d
                     /\ all_results' = ExtendedResults(d, all_results)
                     /\ total_pages' = UpdatedTotalPages(d, total_pages)
                     /\ page' = NextPage(page)
                ELSE UNCHANGED <<data, all_results, total_pages, page>>
    /\ UNCHANGED <<max_pages, movies, tv_shows, i, details, movies_data, tv_data,
                   data_json, file_opens, detail_log>>

\* line 86 and the assignment of the result, lines 104 and 183
PagesReturn ==
    /\ pc \in {"movies_pages", "tv_pages"}
    /\ ~(page <= LoopBound(total_pages, max_pages))
    /\ IF pc = "movies_pages"
          THEN movies' = all_results /\ pc' = "movies_details" /\ UNCHANGED tv_shows
          ELSE tv_shows' = all_results /\ pc' = "tv_details" /\ UNCHANGED movies
    /\ i' = 0
    /\ page' = 1 /\ total_pages' = 1 /\ all_results' = <<>> /\ data' = NoData
    /\ UNCHANGED <<max_pages, details, movies_data, tv_data, data_json, file_opens,
                   now, last_request_time, prev_request_time, requests, detail_log>>

----------------------------------------------------------------------------
(* the two detail loops, lines 110-169 and 189-267 *)

\* a GET that replaces the media type by 'movie'
DetailRequestAsMovie(item_id, media_type, ok) == Request("detail", "movie", item_id, ok)

\* fetch_item_details, lines 89-92: the GET of one item's details
DetailRequest(item_id, media_type, ok) == Request("detail", media_type, item_id, ok)

\* lines 145-147 and 217-219
GenreList(det) == IF det.has_genres /\ det.genres # <<>> THEN det.genres ELSE <<>>

RECURSIVE Join(_)
\* ', '.join(names) for a non-empty list
Join(names) ==
    IF Len(names) = 1 THEN <<names[1]>>
    ELSE <<names[1], SEPARATOR>> \o Join(Tail(names))

\* lines 144-149 and 216-221
GenresField(det) == IF GenreList(det) # <<>> THEN Join(GenreList(det)) ELSE NA

\* a filter that looks at the first genre only
IsExcludedByFirst(genre_list) ==
    genre_list # <<>> /\ genre_list[1] \in EXCLUDED_GENRES

\* lines 152 and 224
IsExcluded(genre_list) ==
    \E k \in 1..Len(genre_list) : genre_list[k] \in EXCLUDED_GENRES

\* lines 155-169
MovieRecord(movie, det) == [id |-> movie.id, genres |-> GenresField(det), type |-> "movie"]

\* lines 253-267
TvRecord(show, det) == [id |-> show.id, genres |-> GenresField(det), type |-> "tv"]

\* one iteration of the movie loop
MovieDetail(E) ==
    /\ pc = "movies_details"
    /\ i < Len(movies)
    /\ \E pre \in E.pre, over \in E.over, dur \in E.dur, ok \in E.oks, det \in E.payloads :
          LET movie == movies[i + 1] IN
          /\ RateLimitedGet(pre, over, dur, DetailRequest(movie.id, "movie", ok))
          /\ pc' = RaiseForStatus(ok, pc)
          /\ IF ok
                THEN /\ details' = det
                     /\ detail_log' = [detail_log EXCEPT !.movie = Append(@, det)]
                     /\ movies_data' = IF IsExcluded(GenreList(det))
                                          THEN movies_data
                                          ELSE Append(movies_data, MovieRecord(movie, det))
                     /\ i' = i + 1
                ELSE UNCHANGED <<details, detail_log, movies_data, i>>
    /\ UNCHANGED <<max_pages, page, total_pages, all_results, data, movies, tv_shows,
                   tv_data, data_json, file_opens>>

\* the movie loop is over: lines 171-183, up to the call of fetch_all_pages(tv_url)
MoviesDone ==
    /\ pc = "movies_details"
    /\ i = Len(movies)
    /\ pc' = "tv_pages"
    /\ i' = 0
    /\ details' = NoDetails
    /\ page' = 1 /\ total_pages' = 1 /\ all_results' = <<>>
    /\ UNCHANGED <<max_pages, data, movies, tv_shows, movies_data, tv_data, data_json,
                   file_opens, now, last_request_time, prev_request_time, requests,
                   detail_log>>

\* one iteration of the TV loop
TvDetail(E) ==
    /\ pc = "tv_details"
    /\ i < Len(tv_shows)
    /\ \E pre \in E.pre, over \in E.over, dur \in E.dur, ok \in E.oks, det \in E.payloads :
          LET show == tv_shows[i + 1] IN
          /\ RateLimitedGet(pre, over, dur, DetailRequest(show.id, "tv", ok))
          /\ pc' = RaiseForStatus(ok, pc)
          /\ IF ok
                THEN /\ details' = det
                     /\ detail_log' = [detail_log EXCEPT !.tv = Append(@, det)]
                     /\ tv_data' = IF IsExcluded(GenreList(det))
                                      THEN tv_data
                                      ELSE Append(tv_data, TvRecord(show, det))
                     /\ i' = i + 1
                ELSE UNCHANGED <<details, detail_log, tv_data, i>>
    /\ UNCHANGED <<max_pages, page, total_pages, all_results, data, movies, tv_shows,
                   movies_data, data_json, file_opens>>

\* the TV loop is over: line 269
TvDone ==
    /\ pc = "tv_details"
    /\ i = Len(tv_shows)
    /\ pc' = "save"
    /\ details' = NoDetails
    /\ UNCHANGED <<max_pages, page, total_pages, all_results, data, movies, tv_shows, i,
                   movies_data, tv_data, data_json, file_opens, now, last_request_time,
                   prev_request_time, requests, detail_log>>

----------------------------------------------------------------------------
(* output, lines 272-291 *)

\* counts taken from the discovered lists instead of the filtered ones
MetadataOfDiscovered(md, td) ==
    [total_movies |-> Len(movies), total_tv |-> Len(tv_shows),
     total_items |-> Len(movies) + Len(tv_shows)]

\* lines 283-285
Metadata(md, td) ==
    [total_movies |-> Len(md), total_tv |-> Len(td), total_items |-> Len(md) + Len(td)]

\* lines 272-287
OutputData(md, td) ==
    [written |-> TRUE, movies |-> md, tv_shows |-> td, metadata |-> Metadata(md, td)]

\* lines 272-291
SaveData ==
    /\ pc = "save"
    /\ data_json' = OutputData(movies_data, tv_data)
    /\ file_opens' = file_opens + 1
    /\ pc' = "done"
    /\ UNCHANGED <<max_pages, page, total_pages, all_results, data, movies, tv_shows, i,
                   details, movies_data, tv_data, now, last_request_time,
                   prev_request_time, requests, detail_log>>

----------------------------------------------------------------------------
(* The script from its start, in an environment E *)

Init(E) ==
    /\ pc = "movies_pages"
    /\ max_pages \in E.caps
    /\ page = 1 /\ total_pages = 1 /\ all_results = <<>> /\ data = NoData
    /\ movies = <<>> /\ tv_shows = <<>> /\ i = 0 /\ details = NoDetails
    /\ movies_data = <<>> /\ tv_data = <<>>
    /\ data_json = NoFile /\ file_opens = 0
    /\ now = StartTime /\ last_request_time = 0 /\ prev_request_time = 0
    /\ requests = <<>>
    /\ detail_log = [movie |-> <<>>, tv |-> <<>>]

Next(E) ==
    \/ FetchPage(E)
    \/ PagesReturn
    \/ MovieDetail(E)
    \/ MoviesDone
    \/ TvDetail(E)
    \/ TvDone
    \/ SaveData

----------------------------------------------------------------------------
(* Environments *)

\* the whole run: varied pages, items and genres, one timing
PipeEnv ==
    [caps     |-> {2},
     counts   |-> 0..MaxPerPage,
     totals   |-> {1, 2},
     payloads |-> {Payload(FALSE, <<>>), Payload(TRUE, <<"Action", "Drama">>),
                   Payload(TRUE, <<"Drama", "Kids">>), Payload(TRUE, <<"Animation">>)},
     pre |-> {0}, over |-> {0}, dur |-> {1}, oks |-> BOOLEAN]

\* the page loop: every cap and every reported total, few items, one timing
PagesEnv ==
    [caps     |-> 0..MaxCap,
     counts   |-> {0, 1},
     totals   |-> 0..MaxTotal,
     payloads |-> {Payload(TRUE, <<"Action">>)},
     pre |-> {0}, over |-> {0}, dur |-> {1}, oks |-> BOOLEAN]

\* the rate limiter: every timing, few pages and items
RateEnv ==
    [caps     |-> {2},
     counts   |-> {1},
     totals   |-> {1, 2},
     payloads |-> {Payload(TRUE, <<"Action">>)},
     pre |-> 0..MaxWait, over |-> {0, 1}, dur |-> {0, 1}, oks |-> BOOLEAN]

Spec == Init(PipeEnv) /\ [][Next(PipeEnv)]_vars

SpecPages == Init(PagesEnv) /\ [][Next(PagesEnv)]_vars

FairSpecPages == SpecPages /\ WF_vars(Next(PagesEnv))

SpecRate == Init(RateEnv) /\ [][Next(RateEnv)]_vars

----------------------------------------------------------------------------
(* Vocabulary of the properties *)

PagePcs == {"movies_pages", "tv_pages"}

Upto(n) == [k \in 1..n |-> k]

Range(f) == {f[k] : k \in DOMAIN f}

LastRequest == requests[Len(requests)]

\* the page numbers requested by the call of fetch_all_pages in progress
IssuedPages ==
    LET sel == SelectSeq(requests, LAMBDA r : r.kind = "discover" /\ r.type = Category)
    IN  [k \in 1..Len(sel) |-> sel[k].arg]

\* the while loop of fetch_all_pages has ended and the call is about to return
LoopEnded == pc \in PagePcs /\ ~(page <= LoopBound(total_pages, max_pages))

\* this step is one iteration of the page loop whose request succeeded
PageProcessed ==
    /\ pc \in PagePcs
    /\ Len(requests') = Len(requests) + 1
    /\ requests'[Len(requests')].ok

\* this step issues a page request
PageIssued == pc \in PagePcs /\ Len(requests') = Len(requests) + 1

----------------------------------------------------------------------------
(* C1 *)

\* C1, as stated: in a call of fetch_all_pages the page requests issued are never
\* more than min(totalPages, maxPages), totalPages being the total the API reported
\* in its latest response, and their numbers are 1, 2, ... without gap or repeat.
C1_AsStated ==
    (pc \in PagePcs /\ page > 1 /\ data.has_results /\ data.has_total_pages) =>
        /\ Len(IssuedPages) <= Min(data.total_pages, max_pages)
        /\ IssuedPages = Upto(Len(IssuedPages))

C1_Numbering ==
    pc \in PagePcs =>
        /\ IssuedPages = Upto(Len(IssuedPages))
        /\ Len(IssuedPages) <= max_pages
        /\ (Len(IssuedPages) > 0 /\ LastRequest.ok) => Len(IssuedPages) = page - 1
        /\ LoopEnded => Len(IssuedPages) >= Min(total_pages, max_pages)

C1_Guard ==
    PageIssued =>
        /\ requests'[Len(requests')].arg = page
        /\ page <= Min(total_pages, max_pages)

\* C1, amended: a call of fetch_all_pages issues at most maxPages page requests,
\* numbered 1, 2, ..., n in increasing order without gap or repeat; each page p is
\* requested only while p <= min(total_pages, maxPages) for total_pages as it
\* stands at that moment (1 before the first response), and the loop ends only
\* once n has reached min(total_pages, maxPages) for the total then in force.
C1_Amended == [](C1_Numbering) /\ [][C1_Guard]_vars

\* a second page was requested and the total then reported was 0
C1_Witness ==
    /\ pc \in PagePcs
    /\ Len(IssuedPages) = 2
    /\ data.has_results /\ data.has_total_pages /\ data.total_pages = 0
    /\ LoopEnded

----------------------------------------------------------------------------
(* C7 *)

\* C7, as stated: after every page response processed, whether or not it holds a
\* 'results' key, total_pages is the response's total_pages, or 1 when that is absent.
C7_AsStated ==
    (pc \in PagePcs /\ page > 1) => total_pages = GetTotalPages(data)

\* C7, amended: after a page response that holds a 'results' key, total_pages is
\* the response's total_pages, or 1 when that is absent; after a page response
\* without a 'results' key, total_pages is what it was before.
C7_Amended ==
    [][PageProcessed =>
          total_pages' = IF data'.has_results THEN GetTotalPages(data') ELSE total_pages]_vars

\* a response without 'results' reported a total that the loop did not take
C7_Witness ==
    /\ pc \in PagePcs
    /\ page > 1
    /\ ~data.has_results /\ data.has_total_pages
    /\ data.total_pages # total_pages

----------------------------------------------------------------------------
(* C8 *)

C8_Step ==
    (PageProcessed /\ ~data'.has_results) =>
        /\ pc' = pc
        /\ all_results' = all_results
        /\ page' = page + 1
        /\ total_pages' = total_pages

C8_Return ==
    (LoopEnded /\ pc' # pc) =>
        IF pc = "movies_pages" THEN movies' = all_results ELSE tv_shows' = all_results

\* C8: a page response without a 'results' key does not abort the call; the
\* accumulator is unchanged, page grows by one, the loop goes on or stops by the
\* total already discovered, and what was accumulated is what the call returns.
C8_NoResultsTolerated == [][C8_Step /\ C8_Return]_vars

\* the second page came without 'results' after a first page with an item
C8_Witness ==
    /\ pc \in PagePcs
    /\ page = 3
    /\ ~data.has_results /\ data.has_total_pages
    /\ Len(all_results) = 1

----------------------------------------------------------------------------
(* C9 *)

C9_Bounded == pc \in PagePcs => (page - 1 <= max_pages /\ Len(IssuedPages) <= max_pages)

C9_Step == PageProcessed => page' = page + 1

\* C9: fetch_all_pages terminates; page grows by one per iteration, there are
\* at most maxPages iterations, and a call in progress is eventually left (by
\* return or by abort), also when the reported total grows from page to page.
C9_Terminates ==
    /\ [](C9_Bounded)
    /\ [][C9_Step]_vars
    /\ (pc = "movies_pages") ~> (pc # "movies_pages")
    /\ (pc = "tv_pages") ~> (pc # "tv_pages")

\* the loop was stopped by the cap while the reported total was beyond it
C9_Witness ==
    /\ pc \in PagePcs
    /\ max_pages >= 2
    /\ page = max_pages + 1
    /\ total_pages > max_pages

----------------------------------------------------------------------------
(* Vocabulary of the properties about the whole run *)

\* the genre names of a detail payload
NamesOf(det) == IF det.has_genres THEN Range(det.genres) ELSE {}

\* the payload holds one of the excluded genres
Rejected(det) == NamesOf(det) \cap EXCLUDED_GENRES # {}

\* the positions of a log of payloads that the filter lets through
Clean(log) == {k \in 1..Len(log) : ~Rejected(log[k])}

RECURSIVE KeptIds(_, _)
\* the ids of the items whose payload (same position in log) is let through
KeptIds(items, log) ==
    IF items = <<>> \/ log = <<>> THEN <<>>
    ELSE (IF Rejected(log[1]) THEN <<>> ELSE <<items[1].id>>)
            \o KeptIds(Tail(items), Tail(log))

Ids(records) == [k \in 1..Len(records) |-> records[k].id]

\* the names (separators left out) of a joined genres field
NamesIn(joined) == Range(joined) \ {SEPARATOR}

FailedAt == {k \in 1..Len(requests) : ~requests[k].ok}

DetailsOf(type) ==
    SelectSeq(requests, LAMBDA r : r.kind = "detail" /\ r.type = type)

----------------------------------------------------------------------------
(* C2 *)

\* C2: data.json is written at most once, and only after both discoveries and
\* every detail request have succeeded; a failed request is the last request of
\* the run, stops the run, and leaves data.json unopened and unmodified.
C2_WriteOnceAfterAll ==
    /\ file_opens <= 1
    /\ (file_opens = 0) = (data_json = NoFile)
    /\ file_opens = 1 =>
          /\ pc = "done"
          /\ FailedAt = {}
          /\ Len(DetailsOf("movie")) = Len(movies)
          /\ Len(DetailsOf("tv")) = Len(tv_shows)
          /\ Len(detail_log.movie) = Len(movies)
          /\ Len(detail_log.tv) = Len(tv_shows)
    /\ FailedAt # {} =>
          /\ FailedAt = {Len(requests)}
          /\ pc = "aborted"
          /\ file_opens = 0
          /\ data_json = NoFile
    /\ (pc = "aborted") => FailedAt # {}

\* the run was stopped by the failure of a TV detail request, movies being done
C2_Witness ==
    /\ pc = "aborted"
    /\ Len(requests) > 0
    /\ LastRequest.kind = "detail" /\ LastRequest.type = "tv"
    /\ movies_data # <<>>
    /\ file_opens = 0

----------------------------------------------------------------------------
(* C4 *)

C4_ListClean(records, log) ==
    /\ \A k \in 1..Len(records) : NamesIn(records[k].genres) \cap EXCLUDED_GENRES = {}
    /\ Len(records) <= Cardinality(Clean(log))

\* C4: in every state and in the written file, no record of movies or tv_shows
\* comes from an item whose detail payload names an excluded genre: no record
\* carries such a name, and the records are no more than the payloads let through.
C4_GenreFilter ==
    /\ C4_ListClean(movies_data, detail_log.movie)
    /\ C4_ListClean(tv_data, detail_log.tv)
    /\ data_json # NoFile =>
          /\ C4_ListClean(data_json.movies, detail_log.movie)
          /\ C4_ListClean(data_json.tv_shows, detail_log.tv)

\* the file is written, an item with an excluded genre after a permitted one was
\* handled in each category, and each list holds a record
C4_Witness ==
    /\ data_json # NoFile
    /\ \E k \in 1..Len(detail_log.movie) :
          Rejected(detail_log.movie[k]) /\ detail_log.movie[k].genres[1] \notin EXCLUDED_GENRES
    /\ \E k \in 1..Len(detail_log.tv) : Rejected(detail_log.tv[k])
    /\ data_json.movies # <<>>
    /\ data_json.tv_shows # <<>>

----------------------------------------------------------------------------
(* C5 *)

\* C5: in the written document total_items = len(movies) + len(tv_shows),
\* total_movies = len(movies) and total_tv = len(tv_shows), the lists holding
\* only what passed the genre filter.
C5_MetadataCounts ==
    data_json # NoFile =>
        /\ data_json.metadata.total_items = Len(data_json.movies) + Len(data_json.tv_shows)
        /\ data_json.metadata.total_movies = Len(data_json.movies)
        /\ data_json.metadata.total_tv = Len(data_json.tv_shows)
        /\ data_json.metadata.total_movies = Cardinality(Clean(detail_log.movie))
        /\ data_json.metadata.total_tv = Cardinality(Clean(detail_log.tv))

\* a written document whose lists are shorter than what was discovered
C5_Witness ==
    /\ data_json # NoFile
    /\ Len(movies) = 2 /\ Len(data_json.movies) = 1
    /\ Len(tv_shows) = 2 /\ Len(data_json.tv_shows) = 0

----------------------------------------------------------------------------
(* C6 *)

C6_Lists ==
    /\ Ids(movies_data) = KeptIds(movies, detail_log.movie)
    /\ Ids(tv_data) = KeptIds(tv_shows, detail_log.tv)
    /\ \A k \in 1..Len(movies_data) : movies_data[k].type = "movie"
    /\ \A k \in 1..Len(tv_data) : tv_data[k].type = "tv"
    /\ data_json # NoFile =>
          /\ Ids(data_json.movies) = KeptIds(movies, detail_log.movie)
          /\ Ids(data_json.tv_shows) = KeptIds(tv_shows, detail_log.tv)
          /\ Len(detail_log.movie) = Len(movies)
          /\ Len(detail_log.tv) = Len(tv_shows)

C6_Pages ==
    /\ PageProcessed =>
          all_results' = all_results \o (IF data'.has_results THEN data'.results ELSE <<>>)
    /\ (LoopEnded /\ pc' # pc) =>
          IF pc = "movies_pages" THEN movies' = all_results ELSE tv_shows' = all_results

\* C6: each output list is the discovered sequence (the pages in the order of
\* their requests, the items in the order of their page) with the items rejected
\* by the genre filter left out: order kept, nothing doubled, added or lost.
C6_DiscoveryOrder == [](C6_Lists) /\ [][C6_Pages]_vars

\* two pages gave two movies, both kept in their order, and two shows, of which
\* the first was rejected and the second kept
C6_Witness ==
    /\ data_json # NoFile
    /\ Len(movies) = 2
    /\ Ids(data_json.movies) = Ids(movies)
    /\ movies[1].id # movies[2].id
    /\ Len(tv_shows) = 2
    /\ Rejected(detail_log.tv[1])
    /\ Ids(data_json.tv_shows) = <<tv_shows[2].id>>

----------------------------------------------------------------------------
(* C10 *)

PageRequests(type, n) == [k \in 1..n |-> Request("discover", type, k, TRUE)]

DetailRequests(type, items) ==
    [k \in 1..Len(items) |-> Request("detail", type, items[k].id, TRUE)]

\* C10: in a run without request errors the requests are the movie pages, one
\* detail request per discovered movie in discovery order (rejected ones
\* included), the TV pages, one detail request per discovered show in order.
C10_RequestSequence ==
    pc \in {"save", "done"} =>
        \E nm \in 0..max_pages, nt \in 0..max_pages :
            requests = PageRequests("movie", nm) \o DetailRequests("movie", movies)
                          \o PageRequests("tv", nt) \o DetailRequests("tv", tv_shows)

\* a finished run in which items of both categories were rejected after their request
C10_Witness ==
    /\ pc = "done"
    /\ Len(movies) = 2 /\ Len(movies_data) = 1
    /\ Len(tv_shows) = 2 /\ Len(tv_data) = 1
    /\ Len(requests) = 8

----------------------------------------------------------------------------
(* C3 *)

\* C3: between the grant of one request and the grant of the next at least
\* DELAY_BETWEEN_REQUESTS passes, whatever the kinds of the two requests and
\* their durations, and a GET is issued no earlier than its grant.
C3_Spacing ==
    /\ Len(requests) >= 2 => last_request_time - prev_request_time >= DELAY_BETWEEN_REQUESTS
    /\ Len(requests) >= 1 => last_request_time <= now

\* a detail request granted exactly one delay after a page request, after a sleep
C3_Witness ==
    /\ Len(requests) >= 2
    /\ requests[Len(requests) - 1].kind = "discover"
    /\ LastRequest.kind = "detail"
    /\ last_request_time - prev_request_time = DELAY_BETWEEN_REQUESTS
    /\ now = last_request_time

====
